---- MODULE Spec2Model ----
(***************************************************************************)
(* EIP-712 style typed-data hashing of wallet-core:                        *)
(* src/Ethereum/ABI/ParamStruct.cpp (ParamNamed, ParamSetNamed,            *)
(* ParamStruct, makeType/makeTypes, makeStruct, hashStructJson).           *)
(*                                                                         *)
(* Objects live in a heap (a sequence of records, the index is the         *)
(* address); a shared_ptr is an index, nullptr is 0.  A std::string that   *)
(* the code builds by concatenation is a sequence of tokens, Data is a     *)
(* sequence of 32-byte blocks, and the hash oracle is a free constructor.  *)
(***************************************************************************)
EXTENDS Integers, Sequences, FiniteSets, TLC

\* Bound of the model: the total number of field declarations of a schema.
MaxSchemaFields == 3

\* Data hash(32): the size of a digest, and of every block of a Data.
HashLen == 32

\* ------------------------------------------------------------------ inputs

\* The type tags ParamFactory::make recognises (the atomic types).
AtomicTags == {"string", "address", "bool"}

\* The name of the k-th declared struct type, unless it re-declares "A".
StructNameAt == <<"A", "B", "C", "D", "E", "F">>

\* The name of the j-th field of a struct (declared in non-alphabetical order).
FieldNameAt == <<"y", "x", "w", "v", "u">>

\* The keys of value documents in the order nlohmann's std::map keeps them.
SortedKeys == <<"extra", "u", "v", "w", "x", "y">>

\* A key a JSON object does not hold (p2["name"] on an object without it).
Missing == "<missing>"

\* ------------------------------------------------------------------ heap

NullPtr == 0

\* auto x = value; body: the value is computed once and the body uses it.
With(value, Body(_)) == Body(value)

\* The value of an atomic container: how it was decoded, and from which text.
NoVal == [enc |-> "", s |-> 0]

NewAtomic(type) ==
    [kind |-> "atomic", name |-> "", type |-> type, val |-> NoVal,
     param |-> NullPtr, params |-> <<>>]

NewNamed(name, param) ==
    [kind |-> "named", name |-> name, type |-> "", val |-> NoVal,
     param |-> param, params |-> <<>>]

NewStruct(name, params) ==
    [kind |-> "struct", name |-> name, type |-> "", val |-> NoVal,
     param |-> NullPtr, params |-> params]

\* ParamBase::getType of the two variants: the type tag of an atomic
\* container, the name of a struct (findType compares it with a type name).
getType(h, id) ==
    IF h[id].kind = "struct" THEN h[id].name ELSE h[id].type

\* ------------------------------------------------------------------ results

NoErr == [kind |-> "", msg |-> ""]

Ok(h, id, ids) ==
    [ok |-> TRUE, h |-> h, id |-> id, ids |-> ids, err |-> NoErr]

Throw(kind, msg) ==
    [ok |-> FALSE, h |-> <<>>, id |-> NullPtr, ids |-> <<>>,
     err |-> [kind |-> kind, msg |-> msg]]

\* catch (const std::invalid_argument&) { throw; }
\* catch (...) { throw std::invalid_argument("Could not process Json"); }
CatchAll(r) ==
    IF r.ok \/ r.err.kind = "invalid_argument" THEN r
    ELSE Throw("invalid_argument", "Could not process Json")

\* The exception kinds that derive from std::exception.
StdExceptions == {"invalid_argument", "json_exception"}

\* catch (std::exception&) { throw; }
\* catch (...) { throw std::invalid_argument("Could not process Json"); }
CatchStd(r) ==
    IF r.ok \/ r.err.kind \in StdExceptions THEN r
    ELSE Throw("invalid_argument", "Could not process Json")

\* ------------------------------------------------------------------ strings

\* ParamNamed::getType: _param->getType() + " " + _name
namedGetType(h, id) ==
    <<getType(h, h[id].param), " ", h[id].name>>

RECURSIVE setGetTypeFrom(_, _, _)
setGetTypeFrom(h, params, i) ==
    IF i > Len(params) THEN <<>>
    ELSE (IF i > 1 THEN <<",">> ELSE <<>>)
         \o namedGetType(h, params[i]) \o setGetTypeFrom(h, params, i + 1)

\* ParamSetNamed::getType: "(" + the fields' types joined by "," + ")"
setGetType(h, params) ==
    <<"(">> \o setGetTypeFrom(h, params, 1) \o <<")">>

\* ParamStruct::encodeType: the struct's canonical type string,
\* typeName + fields.getType().
encodeType(h, id) ==
    <<h[id].name>> \o setGetType(h, h[id].params)

\* ------------------------------------------------------------------ hashing

\* Hash::keccak256 of the bytes of a string, and of a Data.
keccakStr(s) == [keccakStr |-> s]
keccak256(d) == [keccak256 |-> d]

\* Data hash(32): 32 zero bytes.
ZeroHash == [zero |-> HashLen]

\* The number of bytes of a Data.
DataSize(d) == HashLen * Len(d)

\* hashStruct of an atomic value: the 32 bytes of its encoding.
atomicHashStruct(h, id) ==
    [atomType |-> h[id].type, atomVal |-> h[id].val]

\* ParamStruct::hashType
hashType(h, id) ==
    keccakStr(encodeType(h, id))

RECURSIVE hashStruct(_, _)
RECURSIVE setEncodeHashesFrom(_, _, _)

\* ParamSetNamed::encodeHashes: the fields' hashStruct(), appended in order.
setEncodeHashesFrom(h, params, i) ==
    IF i > Len(params) THEN <<>>
    ELSE <<hashStruct(h, h[params[i]].param)>>
         \o setEncodeHashesFrom(h, params, i + 1)

setEncodeHashes(h, params) == setEncodeHashesFrom(h, params, 1)

\* ParamStruct::encodeHashes
encodeHashesNoType(h, id) ==
    setEncodeHashes(h, h[id].params)

encodeHashes(h, id) ==
    With(setEncodeHashes(h, h[id].params), LAMBDA paramsHashes :
        IF DataSize(paramsHashes) > 0
        THEN <<keccakStr(encodeType(h, id))>> \o paramsHashes
        ELSE <<>>)

\* ParamStruct::hashStruct, and the hashStruct of an atomic value.
hashStruct(h, id) ==
    IF h[id].kind = "struct"
    THEN With(encodeHashes(h, id), LAMBDA hashes :
             IF DataSize(hashes) > 0 THEN keccak256(hashes) ELSE ZeroHash)
    ELSE atomicHashStruct(h, id)

\* ------------------------------------------------------------------ extra types

InListNever(list, x) == FALSE

\* std::find(ignoreList.begin(), ignoreList.end(), x) != ignoreList.end()
InList(list, x) == \E k \in 1..Len(list) : list[k] = x

Max(a, b) == IF a >= b THEN a ELSE b

RECURSIVE structGetExtraTypes(_, _, _, _)
RECURSIVE setGetExtraTypesFrom(_, _, _, _, _, _, _)

\* ParamSetNamed::getExtraTypes: the loop over _params from index i, with the
\* string built so far and the deepest call seen so far.
setGetExtraTypesFrom(h, params, i, ignoreList, types, depth, deepest) ==
    IF i > Len(params)
    THEN [types |-> types, ignoreList |-> ignoreList, deepest |-> deepest]
    ELSE LET p == h[params[i]].param
             pType == getType(h, p)
         IN  IF ~InList(ignoreList, pType)
             THEN With(IF h[p].kind = "struct"
                       THEN structGetExtraTypes(h, p, ignoreList, depth + 1)
                       ELSE [types |-> <<>>, ignoreList |-> ignoreList,
                             deepest |-> depth],
                       LAMBDA r :
                           setGetExtraTypesFrom(h, params, i + 1,
                               Append(r.ignoreList, pType), types \o r.types,
                               depth, Max(deepest, r.deepest)))
             ELSE setGetExtraTypesFrom(h, params, i + 1, ignoreList, types,
                                       depth, deepest)

\* ParamStruct::getExtraTypes, called at recursion depth `depth`.
structGetExtraTypes(h, id, ignoreList, depth) ==
    LET seen == InList(ignoreList, h[id].name)
        own == IF seen THEN <<>>
               ELSE <<h[id].name>> \o setGetType(h, h[id].params)
        list == IF seen THEN ignoreList ELSE Append(ignoreList, h[id].name)
    IN  setGetExtraTypesFrom(h, h[id].params, 1, list, own, depth, depth)

\* ParamStruct::getExtraTypes with a fresh ignoreList.
getExtraTypes(h, id) == structGetExtraTypes(h, id, <<>>, 1)

\* ------------------------------------------------------------------ registry

\* findType: the first type of `types` with that name, or nullptr.
RECURSIVE findTypeFrom(_, _, _, _)
findTypeFrom(h, typeName, types, i) ==
    IF i > Len(types) THEN NullPtr
    ELSE IF getType(h, types[i]) = typeName THEN types[i]
    ELSE findTypeFrom(h, typeName, types, i + 1)

RECURSIVE findTypeLastFrom(_, _, _, _)
findTypeLastFrom(h, typeName, types, i) ==
    IF i < 1 THEN NullPtr
    ELSE IF getType(h, types[i]) = typeName THEN types[i]
    ELSE findTypeLastFrom(h, typeName, types, i - 1)

findTypeLast(h, typeName, types) ==
    findTypeLastFrom(h, typeName, types, Len(types))

findType(h, typeName, types) == findTypeFrom(h, typeName, types, 1)

\* ParamFactory::make: a fresh empty container of an atomic type, or nullptr.
factoryMake(h, type) ==
    IF type \in AtomicTags
    THEN LET hn == Append(h, NewAtomic(type)) IN Ok(hn, Len(hn), <<>>)
    ELSE Ok(h, NullPtr, <<>>)

\* ParamFactory::makeNamed: a ParamNamed around a fresh container, or nullptr.
factoryMakeNamed(h, name, type) ==
    With(factoryMake(h, type), LAMBDA p :
        IF p.id = NullPtr THEN p
        ELSE Ok(Append(p.h, NewNamed(name, p.id)), Len(p.h) + 1, <<>>))

\* The field of makeType that is a struct reference: found in extraTypes.
resolveAnywhere(h, type, extraTypes) ==
    With(findType(h, type, extraTypes), LAMBDA found :
        IF found # NullPtr THEN found
        ELSE IF Len(extraTypes) > 0 THEN extraTypes[1] ELSE NullPtr)

resolveStruct(h, type, extraTypes) == findType(h, type, extraTypes)

\* ParamStruct::makeType: the loop over the field declarations from index i.
RECURSIVE makeTypeFields(_, _, _, _, _)
makeTypeFields(h, fields, i, extraTypes, params) ==
    IF i > Len(fields) THEN Ok(h, NullPtr, params)
    ELSE LET p2 == fields[i] IN
         IF p2.name = Missing \/ p2.type = Missing
         THEN Throw("json_exception", "type_error")
         ELSE IF p2.name = "" \/ p2.type = ""
         THEN Throw("invalid_argument", "Expecting 'name' and 'type'")
         ELSE With(factoryMakeNamed(h, p2.name, p2.type), LAMBDA named :
              IF named.id # NullPtr
              THEN makeTypeFields(named.h, fields, i + 1, extraTypes,
                                  Append(params, named.id))
              ELSE With(resolveStruct(h, p2.type, extraTypes), LAMBDA p2struct :
                   IF p2struct = NullPtr
                   THEN Throw("invalid_argument", "Unknown type")
                   ELSE makeTypeFields(Append(h, NewNamed(p2.name, p2struct)),
                            fields, i + 1, extraTypes,
                            Append(params, Len(h) + 1))))

\* The try block of ParamStruct::makeType on one element of the schema.
makeTypeTry(h, elem, extraTypes) ==
    IF elem.kind = "scalar" THEN Throw("json_exception", "invalid_iterator")
    ELSE IF elem.kind = "empty"
    THEN Throw("invalid_argument", "No valid params found")
    ELSE IF elem.kind = "notarray"
    THEN Throw("invalid_argument", "Expecting array")
    ELSE With(makeTypeFields(h, elem.fields, 1, extraTypes, <<>>), LAMBDA r :
         IF ~r.ok THEN r
         ELSE IF Len(r.ids) = 0
         THEN Throw("invalid_argument", "No valid params found")
         ELSE Ok(Append(r.h, NewStruct(elem.name, r.ids)), Len(r.h) + 1, <<>>))

makeTypeRaw(h, elem, extraTypes) == makeTypeTry(h, elem, extraTypes)

\* ParamStruct::makeType
makeType(h, elem, extraTypes) == CatchAll(makeTypeTry(h, elem, extraTypes))

\* ParamStruct::makeTypes: the loop over the schema array from index i.
RECURSIVE makeTypesFrom(_, _, _, _)
makeTypesFrom(h, elems, i, types) ==
    IF i > Len(elems) THEN Ok(h, NullPtr, types)
    ELSE With(makeType(h, elems[i], types), LAMBDA struct1 :
             IF ~struct1.ok THEN struct1
             ELSE makeTypesFrom(struct1.h, elems, i + 1,
                                Append(types, struct1.id)))

\* ParamStruct::makeTypes
makeTypes(h, doc) ==
    CatchStd(IF doc.kind = "discarded"
             THEN Throw("invalid_argument", "Could not parse types Json")
             ELSE IF doc.kind # "array"
             THEN Throw("invalid_argument", "Expecting array")
             ELSE makeTypesFrom(h, doc.elems, 1, <<>>))

\* ------------------------------------------------------------------ JSON values

\* A JSON text: a string with content s, a number, null, an object with its
\* members in the order they are written, or a text that does not parse.
JStr(s) == [t |-> "string", s |-> s, e |-> <<>>]
JNum == [t |-> "number", s |-> 0, e |-> <<>>]
JNull == [t |-> "null", s |-> 0, e |-> <<>>]
JObj(e) == [t |-> "object", s |-> 0, e |-> e]
JDiscarded == [t |-> "discarded", s |-> 0, e |-> <<>>]

\* The keys a member list holds.
KeysOf(e) == {e[i].k : i \in 1..Len(e)}

\* The value the parser keeps for a key: the one written last.
LastValue(e, key) ==
    e[CHOOSE i \in 1..Len(e) :
        /\ e[i].k = key
        /\ \A j \in (i + 1)..Len(e) : e[j].k # key].v

\* json::parse(text, nullptr, false): an object holds its members in a map
\* from key to value, whatever the order they were written in.
RECURSIVE jsonParse(_)
jsonParse(text) ==
    [t |-> text.t, s |-> text.s,
     m |-> IF text.t = "object"
           THEN [key \in KeysOf(text.e) |-> jsonParse(LastValue(text.e, key))]
           ELSE <<>>]

\* json::dump: an object's members are written in the order of the map.
RECURSIVE jsonDump(_)
RECURSIVE jsonDumpFrom(_, _)
jsonDumpFrom(value, i) ==
    IF i > Len(SortedKeys) THEN <<>>
    ELSE (IF SortedKeys[i] \in DOMAIN value.m
          THEN <<[k |-> SortedKeys[i], v |-> jsonDump(value.m[SortedKeys[i]])]>>
          ELSE <<>>) \o jsonDumpFrom(value, i + 1)

jsonDump(value) ==
    [t |-> value.t, s |-> value.s,
     e |-> IF value.t = "object" THEN jsonDumpFrom(value, 1) ELSE <<>>]

JsonNull == [t |-> "null", s |-> 0, m |-> <<>>]

\* The i-th member of the map, in the order of the map.
RECURSIVE jsonKeysFrom(_, _)
jsonKeysFrom(values, i) ==
    IF i > Len(SortedKeys) THEN <<>>
    ELSE (IF SortedKeys[i] \in DOMAIN values.m THEN <<SortedKeys[i]>> ELSE <<>>)
         \o jsonKeysFrom(values, i + 1)

jsonAtPosition(values, name, i) ==
    With(jsonKeysFrom(values, 1), LAMBDA keys :
        IF i <= Len(keys) THEN values.m[keys[i]] ELSE JsonNull)

\* values[name] on a json that is not const: the member of that name, and
\* null (which the call inserts) when the object has none.  `i` is the index
\* of the field the loop is at.
jsonIndex(values, name, i) ==
    IF name \in DOMAIN values.m THEN values.m[name] ELSE JsonNull

\* value.get<std::string>() throws a json type_error unless the value is a
\* string.
jsonIsStringLenient(value) == value.t \in {"string", "null"}

jsonIsString(value) == value.t = "string"

\* ------------------------------------------------------------------ binding

SOk(h, id, deepest, regs) ==
    [ok |-> TRUE, h |-> h, id |-> id, err |-> NoErr,
     deepest |-> deepest, regs |-> regs]

SThrow(kind, msg, deepest) ==
    [ok |-> FALSE, h |-> <<>>, id |-> NullPtr,
     err |-> [kind |-> kind, msg |-> msg], deepest |-> deepest, regs |-> {}]

\* The catch clauses of makeStruct.
SCatchAll(r) ==
    IF r.ok \/ r.err.kind = "invalid_argument" THEN r
    ELSE SThrow("invalid_argument", "Could not process Json", r.deepest)

\* The container a field's value is set in: ParamFactory::make(type), or
\* nullptr when the type is not atomic.  `field` is the field of the template.
paramValOfTemplate(h, field, type) ==
    IF type \in AtomicTags THEN Ok(h, h[field].param, <<>>)
    ELSE Ok(h, NullPtr, <<>>)

paramValFor(h, field, type) == factoryMake(h, type)

\* The order in which makeStruct binds the fields: for (i = 0; i <
\* typeInfo->getParams().getCount(); ++i), the fields of the type as declared.
RECURSIVE fieldsOfKeys(_, _, _)
fieldsOfKeys(h, fields, keys) ==
    IF Len(keys) = 0 THEN <<>>
    ELSE SelectSeq(fields, LAMBDA f : h[f].name = Head(keys))
         \o fieldsOfKeys(h, fields, Tail(keys))

bindOrderOfValue(h, fields, values) ==
    fieldsOfKeys(h, fields, jsonKeysFrom(values, 1))

bindOrder(h, fields, values) == fields

RECURSIVE makeStructAt(_, _, _, _, _)
RECURSIVE makeStructFields(_, _, _, _, _, _, _, _, _, _)

\* The loop of makeStruct over the fields of typeInfo from index i.
makeStructFields(h, structType, fields, i, values, types, typesJson, params, depth, acc) ==
    IF i > Len(fields)
    THEN SOk(Append(h, NewStruct(structType, params)), Len(h) + 1,
             acc.deepest, acc.regs)
    ELSE LET name == h[fields[i]].name
             type == getType(h, h[fields[i]].param)
         IN
         With(jsonIndex(values, name, i), LAMBDA value :
         With(paramValFor(h, fields[i], type), LAMBDA paramVal :
             IF paramVal.id # NullPtr
             THEN IF type = "string" \/ type = "address"
                  THEN IF ~jsonIsString(value)
                       THEN SThrow("json_exception", "type_error", acc.deepest)
                       ELSE makeStructFields(
                                Append([paramVal.h EXCEPT ![paramVal.id].val =
                                           [enc |-> IF type = "string"
                                                    THEN "utf8" ELSE "hex",
                                            s |-> value.s]],
                                       NewNamed(name, paramVal.id)),
                                structType, fields, i + 1, values, types,
                                typesJson, Append(params, Len(paramVal.h) + 1),
                                depth, acc)
                  ELSE SThrow("invalid_argument", "Unsupported type", acc.deepest)
             ELSE IF findType(h, type, types) = NullPtr
                  THEN SThrow("invalid_argument",
                              "Could not find type for sub-struct", acc.deepest)
                  ELSE With(makeStructAt(h, type, jsonDump(value), typesJson,
                                         depth + 1),
                            LAMBDA subStruct :
                       IF ~subStruct.ok
                       THEN SThrow(subStruct.err.kind, subStruct.err.msg,
                                   Max(acc.deepest, subStruct.deepest))
                       ELSE makeStructFields(
                                Append(subStruct.h, NewNamed(name, subStruct.id)),
                                structType, fields, i + 1, values, types,
                                typesJson, Append(params, Len(subStruct.h) + 1),
                                depth,
                                [deepest |-> Max(acc.deepest, subStruct.deepest),
                                 regs |-> acc.regs \cup subStruct.regs]))))

\* The try block of makeStruct, entered at recursion depth `depth`.
makeStructTry(h, structType, valueJson, typesJson, depth) ==
    With(makeTypes(h, typesJson), LAMBDA types :
    IF ~types.ok THEN SThrow(types.err.kind, types.err.msg, depth)
    ELSE With(findType(types.h, structType, types.ids), LAMBDA typeInfo :
         IF typeInfo = NullPtr
         THEN SThrow("invalid_argument", "Type not found", depth)
         ELSE With(jsonParse(valueJson), LAMBDA values :
              IF values.t = "discarded"
              THEN SThrow("invalid_argument", "Could not parse value Json", depth)
              ELSE IF values.t # "object"
              THEN SThrow("invalid_argument", "Expecting object", depth)
              ELSE makeStructFields(types.h, structType,
                       bindOrder(types.h, types.h[typeInfo].params, values), 1,
                       values, types.ids, typesJson, <<>>, depth,
                       [deepest |-> depth,
                        regs |-> {types.ids[k] : k \in 1..Len(types.ids)}]))))

makeStructAt(h, structType, valueJson, typesJson, depth) ==
    SCatchAll(makeStructTry(h, structType, valueJson, typesJson, depth))

\* ParamStruct::makeStruct
makeStruct(h, structType, valueJson, typesJson) ==
    makeStructAt(h, structType, valueJson, typesJson, 1)

\* ------------------------------------------------------------------ callers

\* What a caller reads off a ParamStruct: the results of its methods.
NoOut ==
    [id |-> NullPtr, encodeType |-> <<>>, hashType |-> ZeroHash,
     encodeHashes |-> <<>>, hashStruct |-> ZeroHash, extraTypes |-> <<>>,
     deepest |-> 0]

methodsOf(h, id) ==
    With(getExtraTypes(h, id), LAMBDA extra :
        [id |-> id, encodeType |-> encodeType(h, id),
         hashType |-> hashType(h, id), encodeHashes |-> encodeHashes(h, id),
         hashStruct |-> hashStruct(h, id), extraTypes |-> extra.types,
         deepest |-> extra.deepest])

\* ------------------------------------------------------------------ documents

ArrayDoc(elems) == [kind |-> "array", elems |-> elems]

RECURSIVE SumLen(_, _)
SumLen(elems, i) ==
    IF i > Len(elems) THEN 0 ELSE Len(elems[i].fields) + SumLen(elems, i + 1)

\* The number of field declarations of a schema.
FieldCount(doc) == SumLen(doc.elems, 1)

\* The type tags a field of the k-th element is given: the atomic ones, the
\* names declared before it, its own name and the name of the next element.
TagsAt(k) == AtomicTags \cup {StructNameAt[j] : j \in 1..(k + 1)}

NamesAt(k) == {StructNameAt[k]} \cup (IF k > 1 THEN {"A"} ELSE {})

FieldLists(k, n) ==
    UNION {{[j \in 1..len |-> [name |-> FieldNameAt[j], type |-> tags[j]]] :
               tags \in [1..len -> TagsAt(k)]} : len \in 1..n}

\* The k-th element of a schema with room for n more field declarations.
Elements(k, n) ==
    {[kind |-> "object", name |-> name, fields |-> fields] :
        name \in NamesAt(k), fields \in FieldLists(k, n)}
    \cup {[kind |-> kind, name |-> StructNameAt[k], fields |-> <<>>] :
             kind \in {"scalar", "empty", "notarray", "object"}}
    \cup (IF n = 0 THEN {}
          ELSE {[kind |-> "object", name |-> StructNameAt[k],
                 fields |-> <<field>>] :
                    field \in {[name |-> Missing, type |-> "string"],
                               [name |-> FieldNameAt[1], type |-> ""]}})

\* The value document that fits a struct type, every string with a content
\* of its own.
RECURSIVE CanonEntries(_, _, _, _)
CanonEntries(h, id, seed, j) ==
    IF j > Len(h[id].params) THEN <<>>
    ELSE LET field == h[h[id].params[j]]
             n == seed * (MaxSchemaFields + 1) + j
         IN  <<[k |-> field.name,
                v |-> IF h[field.param].kind = "struct"
                      THEN JObj(CanonEntries(h, field.param, n, 1))
                      ELSE JStr(n)]>>
             \o CanonEntries(h, id, seed, j + 1)

CanonDoc(h, id) == JObj(CanonEntries(h, id, 0, 1))

RemoveAt(e, i) == SubSeq(e, 1, i - 1) \o SubSeq(e, i + 1, Len(e))

ReplaceAt(e, i, v) == [e EXCEPT ![i] = [k |-> e[i].k, v |-> v]]

SwapAt(e, i) == [e EXCEPT ![i] = e[i + 1], ![i + 1] = e[i]]

\* The values an undeclared member is given.
ExtraValues == {JNum, JStr(0), JObj(<<>>)}

\* The values a member is replaced by.
OtherValues == {JNum, JNull, JStr(0), JObj(<<>>)}

\* The documents one change away from an object: a member removed, two
\* members swapped, an undeclared member added, a value replaced, at any depth.
RECURSIVE Edits(_)
Edits(doc) ==
    LET e == doc.e
        n == Len(e)
    IN  {JObj(RemoveAt(e, i)) : i \in 1..n}
        \cup {JObj(SwapAt(e, i)) : i \in 1..(n - 1)}
        \cup {JObj(<<[k |-> "extra", v |-> x]>> \o e) : x \in ExtraValues}
        \cup {JObj(ReplaceAt(e, i, x)) : i \in 1..n, x \in OtherValues}
        \cup UNION {{JObj(ReplaceAt(e, i, d)) : d \in Edits(e[i].v)} :
                       i \in {j \in 1..n : e[j].v.t = "object"}}

\* ------------------------------------------------------------------ state

VARIABLES
    typesJson,   \* the schema document of the calls
    structType,  \* the type name of the last makeStruct
    valueJson,   \* the value document of the last makeStruct
    heap,        \* the objects the caller can reach
    registry,    \* what makeTypes(typesJson) returned or threw
    bound,       \* what the last makeStruct returned or threw
    prev,        \* the struct an earlier makeStruct returned, or nullptr
    out,         \* the results of the methods of a struct
    op           \* the last call

vars == <<typesJson, structType, valueJson, heap, registry, bound, prev, out, op>>

NoBound ==
    [ok |-> FALSE, id |-> NullPtr, err |-> NoErr, deepest |-> 0, regs |-> {}]

RegistryOf(r) == [ok |-> r.ok, types |-> r.ids, err |-> r.err]

BoundOf(r) ==
    [ok |-> r.ok, id |-> r.id, err |-> r.err, deepest |-> r.deepest,
     regs |-> r.regs]

Init ==
    /\ typesJson \in {ArrayDoc(<<>>),
                      [kind |-> "discarded", elems |-> <<>>],
                      [kind |-> "scalar", elems |-> <<>>]}
    /\ registry = RegistryOf(makeTypes(<<>>, typesJson))
    /\ heap = <<>>
    /\ structType = ""
    /\ valueJson = JNull
    /\ bound = NoBound
    /\ prev = NullPtr
    /\ out = NoOut
    /\ op = "makeTypes"

\* makeTypes(typesJson) of a schema with one more element.
MakeTypes ==
    /\ op = "makeTypes"
    /\ registry.ok
    /\ \E elem \in Elements(Len(typesJson.elems) + 1,
                            MaxSchemaFields - FieldCount(typesJson)) :
        \E r \in {makeTypes(<<>>, ArrayDoc(Append(typesJson.elems, elem)))} :
              /\ typesJson' = ArrayDoc(Append(typesJson.elems, elem))
              /\ registry' = RegistryOf(r)
              /\ heap' = r.h
    /\ UNCHANGED <<structType, valueJson, bound, prev, out, op>>

\* A method call on a type template of the registry.
Inspect ==
    /\ op = "makeTypes"
    /\ registry.ok
    /\ \E i \in 1..Len(registry.types) :
          out' = methodsOf(heap, registry.types[i])
    /\ op' = "inspect"
    /\ UNCHANGED <<typesJson, structType, valueJson, heap, registry, bound, prev>>

\* ParamStruct(name, {}): a struct constructed without fields, and its methods.
InspectEmpty ==
    /\ op = "makeTypes"
    /\ registry.ok
    /\ heap' = Append(heap, NewStruct("E", <<>>))
    /\ out' = methodsOf(heap', Len(heap'))
    /\ op' = "inspect"
    /\ UNCHANGED <<typesJson, structType, valueJson, registry, bound, prev>>

\* The type names and value documents of the calls.
TypeNames ==
    {"Nope"} \cup {typesJson.elems[i].name : i \in 1..Len(typesJson.elems)}

DocsNear(doc) == {doc, JDiscarded, JNum} \cup Edits(doc)

ValueDocs(type) ==
    With(IF registry.ok THEN findType(heap, type, registry.types) ELSE NullPtr,
         LAMBDA typeInfo :
             IF typeInfo = NullPtr THEN {JObj(<<>>)}
             ELSE DocsNear(CanonDoc(heap, typeInfo)))

\* ParamStruct::hashStructJson: makeStruct, then hashStruct of its result.
HashStructJson ==
    /\ op = "makeTypes"
    /\ \E type \in TypeNames : \E doc \in ValueDocs(type) :
        \E str \in {makeStruct(heap, type, doc, typesJson)} :
              /\ structType' = type
              /\ valueJson' = doc
              /\ bound' = BoundOf(str)
              /\ heap' = IF str.ok THEN str.h ELSE heap
              /\ out' = IF str.ok THEN methodsOf(str.h, str.id) ELSE NoOut
    /\ op' = "hashStructJson"
    /\ UNCHANGED <<typesJson, registry, prev>>

\* A second makeStruct of the same arguments, the first result still held.
MakeStructAgain ==
    /\ op = "hashStructJson"
    /\ bound.ok
    /\ \E str \in {makeStruct(heap, structType, valueJson, typesJson)} :
           /\ bound' = BoundOf(str)
           /\ heap' = IF str.ok THEN str.h ELSE heap
           /\ prev' = bound.id
    /\ op' = "makeStruct"
    /\ UNCHANGED <<typesJson, structType, valueJson, registry, out>>

Next ==
    \/ MakeTypes
    \/ Inspect
    \/ InspectEmpty
    \/ HashStructJson
    \/ MakeStructAgain

Spec == Init /\ [][Next]_vars

\* ------------------------------------------------------------------ views

\* The fields of a struct.
Fields(h, id) == h[id].params

IsStructField(h, field) == h[h[field].param].kind = "struct"

\* The fields a struct holds, as a caller reads them: names, types, values.
RECURSIVE StructView(_, _)
StructView(h, id) ==
    [j \in 1..Len(Fields(h, id)) |->
        LET field == h[Fields(h, id)[j]]
        IN  [name |-> field.name, type |-> getType(h, field.param),
             val |-> h[field.param].val,
             sub |-> IF h[field.param].kind = "struct"
                     THEN StructView(h, field.param) ELSE <<>>]]

\* What a caller sees of a makeStruct: an error, or the fields and the digest.
ResultView(r) ==
    [ok |-> r.ok,
     fields |-> IF r.ok THEN StructView(r.h, r.id) ELSE <<>>,
     digest |-> IF r.ok THEN hashStruct(r.h, r.id) ELSE ZeroHash]

\* The same of the call the state records.
BoundView ==
    [ok |-> bound.ok,
     fields |-> IF bound.ok THEN StructView(heap, bound.id) ELSE <<>>,
     digest |-> IF bound.ok THEN out.hashStruct ELSE ZeroHash]

\* The objects a set of pointers reaches.
RECURSIVE Reach(_, _)
Reach(h, id) ==
    {id} \cup (IF h[id].kind = "named" THEN Reach(h, h[id].param)
               ELSE UNION {Reach(h, h[id].params[j]) : j \in 1..Len(h[id].params)})

ReachAll(h, ids) == UNION {Reach(h, id) : id \in ids}

\* The number of paths from a pointer to the objects below it.
RECURSIVE PathsFrom(_, _)
RECURSIVE PathsOfFields(_, _, _)
PathsOfFields(h, params, j) ==
    IF j > Len(params) THEN 0
    ELSE PathsFrom(h, params[j]) + PathsOfFields(h, params, j + 1)

PathsFrom(h, id) ==
    1 + (IF h[id].kind = "named" THEN PathsFrom(h, h[id].param)
         ELSE PathsOfFields(h, h[id].params, 1))

SeqToSet(q) == {q[i] : i \in 1..Len(q)}

\* The type the call resolved, in the registry the caller holds.
TypeInfo ==
    IF registry.ok THEN findType(heap, structType, registry.types) ELSE NullPtr

Bound == op \in {"hashStructJson", "makeStruct"} /\ bound.ok

\* ------------------------------------------------------------------ C1

Injective(p) == \A i, j \in DOMAIN p : p[i] = p[j] => i = j

Perms(n) == {p \in [1..n -> 1..n] : Injective(p)}

\* The documents with the members of a document, in any order at any depth.
RECURSIVE Reorderings(_)
Reorderings(doc) ==
    IF doc.t # "object" \/ Len(doc.e) = 0 THEN {doc}
    ELSE LET n == Len(doc.e)
             subs == [i \in 1..n |-> Reorderings(doc.e[i].v)]
             choices == {c \in [1..n -> UNION {subs[i] : i \in 1..n}] :
                            \A i \in 1..n : c[i] \in subs[i]}
         IN  {JObj([i \in 1..n |-> [k |-> doc.e[p[i]].k, v |-> c[p[i]]]]) :
                 p \in Perms(n), c \in choices}

\* The bound struct holds the fields of the declared type, in the declared
\* order, each with the value the document gives under its name.
RECURSIVE BoundAsDeclared(_, _, _, _)
BoundAsDeclared(h, id, typeInfo, doc) ==
    /\ Len(Fields(h, id)) = Len(Fields(h, typeInfo))
    /\ \A j \in 1..Len(Fields(h, id)) :
          LET b == h[Fields(h, id)[j]]
              t == h[Fields(h, typeInfo)[j]]
          IN  /\ b.name = t.name
              /\ getType(h, b.param) = getType(h, t.param)
              /\ b.name \in KeysOf(doc.e)
              /\ IF h[t.param].kind = "struct"
                 THEN /\ h[b.param].kind = "struct"
                      /\ BoundAsDeclared(h, b.param,
                             findType(h, getType(h, t.param), registry.types),
                             LastValue(doc.e, b.name))
                 ELSE h[b.param].val.s = LastValue(doc.e, b.name).s

\* C1: makeStruct binds the fields in the order the schema declares them, not
\* the order of the keys of the value document; a document with the same
\* members in another order, at any depth, gives the same fields and digest.
C1_DeclaredOrder ==
    op = "hashStructJson" =>
        /\ bound.ok =>
              BoundAsDeclared(heap, bound.id, TypeInfo, valueJson)
        /\ \A doc \in Reorderings(valueJson) :
              ResultView(makeStruct(heap, structType, doc, typesJson)) = BoundView

\* A struct bound from a document whose keys are not in the declared order.
C1_Witness ==
    /\ op = "hashStructJson"
    /\ bound.ok
    /\ Len(valueJson.e) >= 2
    /\ valueJson.e[1].k # heap[Fields(heap, bound.id)[1]].name

\* ------------------------------------------------------------------ C2

\* The document lacks a key of a field the type declares, at some depth.
RECURSIVE LacksDeclaredKey(_, _, _)
LacksDeclaredKey(h, typeInfo, doc) ==
    \E j \in 1..Len(Fields(h, typeInfo)) :
        LET t == h[Fields(h, typeInfo)[j]]
        IN  \/ t.name \notin KeysOf(doc.e)
            \/ /\ h[t.param].kind = "struct"
               /\ LastValue(doc.e, t.name).t = "object"
               /\ LacksDeclaredKey(h,
                      findType(h, getType(h, t.param), registry.types),
                      LastValue(doc.e, t.name))

MissingKeyCall ==
    /\ op = "hashStructJson"
    /\ TypeInfo # NullPtr
    /\ valueJson.t = "object"
    /\ LacksDeclaredKey(heap, TypeInfo, valueJson)

\* C2: a value document that lacks the key of a declared field, atomic or
\* struct, at any depth, makes makeStruct and hashStructJson fail: no struct
\* and no digest is returned.
C2_MissingKeyFails ==
    MissingKeyCall =>
        /\ ~bound.ok
        /\ bound.id = NullPtr
        /\ bound.err.kind = "invalid_argument"
        /\ out = NoOut

\* A call whose document has every key of the type but lacks one of a
\* nested struct.
C2_Witness ==
    /\ MissingKeyCall
    /\ \A j \in 1..Len(Fields(heap, TypeInfo)) :
          heap[Fields(heap, TypeInfo)[j]].name \in KeysOf(valueJson.e)
    /\ ~bound.ok

\* ------------------------------------------------------------------ C3

\* A field of the k-th element whose type tag is not atomic and not the name
\* of an element before the k-th.
Unresolved(doc) ==
    \E k \in 1..Len(doc.elems) :
        /\ doc.elems[k].kind = "object"
        /\ \E i \in 1..Len(doc.elems[k].fields) :
              LET type == doc.elems[k].fields[i].type
              IN  /\ type \notin AtomicTags \cup {"", Missing}
                  /\ \A j \in 1..(k - 1) : doc.elems[j].name # type

C4_EncodeHashes ==
    out.id # NullPtr =>
        LET fields == Fields(heap, out.id)
        IN  IF Len(fields) > 0
            THEN /\ out.encodeHashes =
                       <<out.hashType>> \o
                       [j \in 1..Len(fields) |->
                           hashStruct(heap, heap[fields[j]].param)]
                 /\ DataSize(out.encodeHashes) = 32 + 32 * Len(fields)
                 /\ out.hashStruct = keccak256(out.encodeHashes)
            ELSE /\ out.encodeHashes = <<>>
                 /\ out.hashStruct = ZeroHash
                 /\ out.hashStruct # keccak256(<<>>)

\* The methods of a bound struct one of whose fields is a struct.
C4_Witness ==
    /\ Bound
    /\ out.id = bound.id
    /\ \E j \in 1..Len(Fields(heap, out.id)) :
          IsStructField(heap, Fields(heap, out.id)[j])

\* The methods of a struct without fields.
C4_WitnessEmpty ==
    /\ out.id # NullPtr
    /\ Len(Fields(heap, out.id)) = 0

\* ------------------------------------------------------------------ C5, C6

\* The canonical type strings of the struct types below a struct, each once,
\* in the order a depth-first walk of the fields first meets them.
RECURSIVE Discover(_, _, _)
RECURSIVE DiscoverFields(_, _, _, _)
DiscoverFields(h, params, j, seen) ==
    IF j > Len(params) THEN seen
    ELSE DiscoverFields(h, params, j + 1,
             IF IsStructField(h, params[j])
             THEN Discover(h, h[params[j]].param, seen) ELSE seen)

Discover(h, id, seen) ==
    IF encodeType(h, id) \in SeqToSet(seen) THEN seen
    ELSE DiscoverFields(h, h[id].params, 1, Append(seen, encodeType(h, id)))

\* The type strings of the types a struct references, and of the struct.
Discovered(h, id) == Discover(h, id, <<>>)

RECURSIVE Concat(_)
Concat(list) == IF Len(list) = 0 THEN <<>> ELSE Head(list) \o Concat(Tail(list))

\* The type strings a concatenation of type strings is made of.
RECURSIVE SplitTypes(_, _)
SplitTypes(tokens, current) ==
    IF Len(tokens) = 0 THEN (IF Len(current) = 0 THEN <<>> ELSE <<current>>)
    ELSE IF Head(tokens) = ")"
    THEN <<Append(current, ")")>> \o SplitTypes(Tail(tokens), <<>>)
    ELSE SplitTypes(Tail(tokens), Append(current, Head(tokens)))

\* C5: hashType() = Hash(encodeType() + getExtraTypes()): the struct's own
\* type string followed by the type string of every struct type it references.
C5_HashTypeCoversReferencedTypes ==
    out.id # NullPtr =>
        out.hashType =
            keccakStr(out.encodeType \o Concat(Tail(Discovered(heap, out.id))))

RECURSIVE ReferencedNames(_, _)
ReferencedNames(h, id) ==
    UNION {{getType(h, h[f].param)} \cup ReferencedNames(h, h[f].param) :
              f \in {g \in SeqToSet(h[id].params) : IsStructField(h, g)}}

C7_OnlyInvalidArgument ==
    /\ ~registry.ok =>
          /\ registry.err.kind = "invalid_argument"
          /\ registry.types = <<>>
    /\ (op = "hashStructJson" /\ ~bound.ok) =>
          /\ bound.err.kind = "invalid_argument"
          /\ bound.id = NullPtr
          /\ out = NoOut

\* A failure that began as an exception of the JSON library.
C7_Witness ==
    /\ op = "hashStructJson"
    /\ registry.ok
    /\ ~bound.ok
    /\ bound.err.msg = "Could not process Json"

C7_WitnessSchema ==
    /\ ~registry.ok
    /\ registry.err.msg = "Could not process Json"

\* ------------------------------------------------------------------ C8

\* The type templates of the registry the caller holds and of the registries
\* the last makeStruct built.
Templates == SeqToSet(registry.types) \cup bound.regs

\* C8: the objects of a bound struct are its own: none is reached twice, none
\* is an object of a type template or of another bound struct, and binding
\* leaves the value of every template untouched.
C8_NoSharing ==
    Bound =>
        /\ Cardinality(Reach(heap, bound.id)) = PathsFrom(heap, bound.id)
        /\ Reach(heap, bound.id) \cap ReachAll(heap, Templates) = {}
        /\ prev # NullPtr =>
              Reach(heap, bound.id) \cap Reach(heap, prev) = {}
        /\ \A id \in ReachAll(heap, Templates) : heap[id].val = NoVal

\* A second binding of a struct with a nested struct, the first still held.
C8_Witness ==
    /\ op = "makeStruct"
    /\ bound.ok
    /\ prev # NullPtr
    /\ \E j \in 1..Len(Fields(heap, bound.id)) :
          IsStructField(heap, Fields(heap, bound.id)[j])

\* ------------------------------------------------------------------ C9

DeclaredNames == {typesJson.elems[i].name : i \in 1..Len(typesJson.elems)}

\* The names the type that a name is looked up to refers to.
RefsOfName(name) ==
    LET typeInfo == findType(heap, name, registry.types)
    IN  {getType(heap, heap[f].param) :
            f \in {g \in SeqToSet(heap[typeInfo].params) : IsStructField(heap, g)}}

\* The names reached from a set of names in at most n lookups.
RECURSIVE NamesWithin(_, _)
NamesWithin(names, n) ==
    IF n = 0 THEN names
    ELSE NamesWithin(names \cup UNION {RefsOfName(name) : name \in names}, n - 1)

\* C9: in an accepted schema the references followed by name lookup have no
\* cycle, and makeStruct and getExtraTypes recurse no deeper than the number
\* of elements of the schema.
C9_AcyclicAndBounded ==
    registry.ok =>
        /\ \A name \in DeclaredNames :
              name \notin NamesWithin(RefsOfName(name), Len(typesJson.elems))
        /\ op = "hashStructJson" =>
              bound.deepest <= Max(1, Len(typesJson.elems))
        /\ (out.id # NullPtr /\ heap[out.id].name \in DeclaredNames) =>
              out.deepest <= Len(typesJson.elems)

\* A binding two calls deep, of a schema that declares a name twice.
C9_Witness ==
    /\ op = "hashStructJson"
    /\ bound.ok
    /\ bound.deepest >= 2
    /\ \E i, j \in 1..Len(typesJson.elems) :
          i < j /\ typesJson.elems[i].name = typesJson.elems[j].name

\* ------------------------------------------------------------------ C10

\* The documents with one more member, of a key no type declares, at any depth.
RECURSIVE WithUndeclared(_)
WithUndeclared(doc) ==
    {JObj(Append(doc.e, [k |-> "extra", v |-> x])) : x \in ExtraValues}
    \cup UNION {{JObj(ReplaceAt(doc.e, i, d)) : d \in WithUndeclared(doc.e[i].v)} :
                   i \in {j \in 1..Len(doc.e) : doc.e[j].v.t = "object"}}

\* C10: a key of the value document that the type does not declare is
\* ignored: adding one, at any depth and with any value, to a document that
\* binds changes neither the bound struct nor the digest.
C10_UndeclaredKeysIgnored ==
    (op = "hashStructJson" /\ bound.ok) =>
        \A doc \in WithUndeclared(valueJson) :
            ResultView(makeStruct(heap, structType, doc, typesJson)) = BoundView

\* A struct bound from a document that holds an undeclared key itself.
C10_Witness ==
    /\ op = "hashStructJson"
    /\ bound.ok
    /\ "extra" \in KeysOf(valueJson.e)

====
